---- MODULE Spec2Model ----
(***************************************************************************)
(* Model of semi_structure_RAG.ipynb: a notebook that partitions a PDF     *)
(* into fragments, classifies them as tables or texts, summarizes each     *)
(* group with a batched chain, indexes the summaries in a vector store     *)
(* and the raw contents in a document store under shared ids, and answers  *)
(* questions through a MultiVectorRetriever chain.                         *)
(*                                                                         *)
(* Line numbers refer to src/semi_structure_RAG.ipynb.  The cells run top  *)
(* to bottom and an uncaught exception stops the run; the kernel keeps     *)
(* its objects, so once `retriever` exists the query cells can be run      *)
(* whenever no ingestion cell is executing.                                *)
(***************************************************************************)
EXTENDS Integers, Sequences, FiniteSets, TLC

VARIABLES
    raw_pdf_elements,      \* fragments returned by partition_pdf (194-203)
    elem_i,                \* position of the loop of line 277
    categorized_elements,  \* line 276
    table_elements,        \* line 283
    text_elements,         \* line 286
    tables,                \* line 368
    texts,                 \* line 380
    llm,                   \* the temperature-0 model behind summarize_chain
    calls,                 \* status of every model call of the running batch
    batch_phase,           \* "idle" | "running" | "raising"
    table_summaries,       \* line 369
    text_summaries,        \* line 381
    retriever,             \* TRUE once lines 422-433 have run
    vectorstore,           \* Chroma collection: sequence in insertion order
    store,                 \* InMemoryStore: set of [key, value] entries, one per key
    uuid_count,            \* number of uuid4 values minted so far
    doc_ids,               \* line 437
    table_ids,             \* line 449
    failure,               \* what stopped the run, "none" while it has not stopped
    query,                 \* the chain.invoke call in progress
    pc                     \* which statement of the notebook runs next

vars == <<raw_pdf_elements, elem_i, categorized_elements, table_elements,
          text_elements, tables, texts, llm, calls, batch_phase,
          table_summaries, text_summaries, retriever, vectorstore, store,
          uuid_count, doc_ids, table_ids, failure, query, pc>>

classifyVars == <<raw_pdf_elements, elem_i, categorized_elements,
                  table_elements, text_elements>>
summaryVars  == <<tables, texts, llm, calls, batch_phase, table_summaries,
                  text_summaries>>
indexVars    == <<retriever, vectorstore, store, uuid_count, doc_ids,
                  table_ids>>

-----------------------------------------------------------------------------
(* Bounds of the model. *)
MaxFragments == 3      \* fragments in raw_pdf_elements
MaxTexts     == 2      \* text elements of an ingestion run
MaxTables    == 2      \* table elements of an ingestion run
MaxBatch     == 6      \* inputs of the batch of the worker-pool specification

(* Program constants. *)
max_concurrency == 5   \* {"max_concurrency": 5}, lines 369 and 381
DEFAULT_K       == 4   \* similarity_search default of the retriever, 429-433

Contents  == {"a", "b"}          \* raw text of a fragment (str(element))
Summaries == {"s0", "s1"}        \* outputs of the summarization model
Questions == {"q0", "q2"}        \* inputs of chain.invoke

SeqsUpTo(S, n) == UNION {[1..m -> S] : m \in 0..n}

Min(a, b) == IF a < b THEN a ELSE b

-----------------------------------------------------------------------------
(* Element classification, lines 272-286.                                  *)

(* Class names of unstructured.documents.elements, as token sequences.     *)
ModulePrefix     == "unstructured.documents.elements."
Table            == <<"Table">>
TableChunk       == <<"Table", "Chunk">>
CompositeElement == <<"Composite", "Element">>
Title            == <<"Title">>
ElementClasses   == {Table, TableChunk, CompositeElement, Title}

Fragments == [cls : ElementClasses, text : Contents]

(* str(type(element)): "<class 'unstructured.documents.elements.X'>" *)
TypeStr(element) == <<"<class '", ModulePrefix>> \o element.cls \o <<"'>">>

(* str(element) of an unstructured element is its text *)
Str(element) == element.text

(* Python's `needle in haystack` on strings *)
In(needle, hay) ==
    \E i \in 0..(Len(hay) - Len(needle)) :
        SubSeq(hay, i + 1, i + Len(needle)) = needle

(* class Element(BaseModel): type, text *)
Element(type, text) == [type |-> type, text |-> text]

(* a classifier that compares the whole class name *)
CategorizeEqualOnly(acc, element) ==
    IF TypeStr(element) = <<"<class '", ModulePrefix, "Table", "'>">>
    THEN Append(acc, Element("table", Str(element)))
    ELSE IF TypeStr(element) = <<"<class '", ModulePrefix, "Composite", "Element", "'>">>
    THEN Append(acc, Element("text", Str(element)))
    ELSE acc

(* one iteration of the loop of lines 277-281 *)
Categorize(acc, element) ==
    IF In(<<ModulePrefix, "Table">>, TypeStr(element))
    THEN Append(acc, Element("table", Str(element)))
    ELSE IF In(<<ModulePrefix, "Composite", "Element">>, TypeStr(element))
    THEN Append(acc, Element("text", Str(element)))
    ELSE acc

(* [e for e in xs if e.type == t] *)
RECURSIVE OfType(_, _)
OfType(xs, t) ==
    IF xs = <<>> THEN <<>>
    ELSE IF Head(xs).type = t
         THEN <<Head(xs)>> \o OfType(Tail(xs), t)
         ELSE OfType(Tail(xs), t)

(* [i.text for i in xs] *)
TextsOf(xs) == [i \in 1..Len(xs) |-> xs[i].text]

EmptyQuery ==
    [stage |-> "Idle", question |-> "q0", embedding |-> 0, hits |-> <<>>,
     docs |-> <<>>, answer |-> "none", fault |-> "none", raised |-> "none",
     model_calls |-> 0]

Blank ==
    /\ elem_i = 1
    /\ categorized_elements = <<>>
    /\ table_elements = <<>>
    /\ text_elements = <<>>
    /\ calls = <<>>
    /\ batch_phase = "idle"
    /\ table_summaries = <<>>
    /\ text_summaries = <<>>
    /\ retriever = FALSE
    /\ vectorstore = <<>>
    /\ store = {}
    /\ uuid_count = 0
    /\ doc_ids = <<>>
    /\ table_ids = <<>>
    /\ failure = "none"
    /\ query = EmptyQuery

(* State after partition_pdf returned (line 204). *)
InitClassify ==
    /\ raw_pdf_elements \in SeqsUpTo(Fragments, MaxFragments)
    /\ tables = <<>>
    /\ texts = <<>>
    /\ llm = [c \in Contents |-> "s0"]
    /\ pc = "categorize"
    /\ Blank

CategorizeElement ==
    /\ pc = "categorize"
    /\ elem_i <= Len(raw_pdf_elements)
    /\ categorized_elements' =
           Categorize(categorized_elements, raw_pdf_elements[elem_i])
    /\ elem_i' = elem_i + 1
    /\ UNCHANGED <<raw_pdf_elements, table_elements, text_elements, pc,
                   summaryVars, indexVars, failure, query>>

CategorizeDone ==
    /\ pc = "categorize"
    /\ elem_i > Len(raw_pdf_elements)
    /\ pc' = "filter_tables"
    /\ UNCHANGED <<classifyVars, summaryVars, indexVars, failure, query>>

FilterTables ==
    /\ pc = "filter_tables"
    /\ table_elements' = OfType(categorized_elements, "table")
    /\ pc' = "filter_texts"
    /\ UNCHANGED <<raw_pdf_elements, elem_i, categorized_elements,
                   text_elements, summaryVars, indexVars, failure, query>>

FilterTexts ==
    /\ pc = "filter_texts"
    /\ text_elements' = OfType(categorized_elements, "text")
    /\ pc' = "classified"
    /\ UNCHANGED <<raw_pdf_elements, elem_i, categorized_elements,
                   table_elements, summaryVars, indexVars, failure, query>>

NextClassify ==
    \/ CategorizeElement
    \/ CategorizeDone
    \/ FilterTables
    \/ FilterTexts

SpecClassify == InitClassify /\ [][NextClassify]_vars

-----------------------------------------------------------------------------
(* Summarization, lines 350-381: summarize_chain.batch(xs, {"max_concurrency": 5}) *)
(* hands every input to a pool of max_concurrency worker threads; a worker *)
(* takes the oldest queued input and calls the model.  batch collects the  *)
(* results in input order; the first exception it meets cancels the calls  *)
(* still queued, waits for the running ones and is raised to the cell.     *)

Running(cs) == {i \in DOMAIN cs : cs[i] = "running"}
Queued(cs)  == {i \in DOMAIN cs : cs[i] = "queued"}

AllDone(cs) == \A i \in DOMAIN cs : cs[i] = "done"

(* the first result batch would read is an exception *)
FirstFailure(cs) ==
    \E i \in DOMAIN cs : cs[i] = "failed" /\ \A j \in 1..(i - 1) : cs[j] = "done"

(* the summary chain on one input: prompt | model | StrOutputParser *)
summarize_chain(x) == llm[x]

SubmitAll(xs) == [i \in 1..Len(xs) |-> "queued"]

(* State after classification: the element lists of lines 283 and 286.     *)
Init ==
    /\ raw_pdf_elements = <<>>
    /\ table_elements \in SeqsUpTo([type : {"table"}, text : Contents], MaxTables)
    /\ text_elements \in SeqsUpTo([type : {"text"}, text : Contents], MaxTexts)
    /\ tables = <<>>
    /\ texts = <<>>
    /\ llm \in [Contents -> Summaries]
    /\ pc = "summarize_tables"
    /\ elem_i = 1
    /\ categorized_elements = <<>>
    /\ calls = <<>>
    /\ batch_phase = "idle"
    /\ table_summaries = <<>>
    /\ text_summaries = <<>>
    /\ retriever = FALSE
    /\ vectorstore = <<>>
    /\ store = {}
    /\ uuid_count = 0
    /\ doc_ids = <<>>
    /\ table_ids = <<>>
    /\ failure = "none"
    /\ query = EmptyQuery

(* State of the worker-pool specification: one batch of up to MaxBatch     *)
(* table elements.                                                         *)
InitPool ==
    /\ raw_pdf_elements = <<>>
    /\ \E n \in 0..MaxBatch :
           table_elements = [i \in 1..n |-> Element("table", "a")]
    /\ text_elements = <<>>
    /\ tables = <<>>
    /\ texts = <<>>
    /\ llm = [c \in Contents |-> "s0"]
    /\ pc = "summarize_tables"
    /\ elem_i = 1
    /\ categorized_elements = <<>>
    /\ calls = <<>>
    /\ batch_phase = "idle"
    /\ table_summaries = <<>>
    /\ text_summaries = <<>>
    /\ retriever = FALSE
    /\ vectorstore = <<>>
    /\ store = {}
    /\ uuid_count = 0
    /\ doc_ids = <<>>
    /\ table_ids = <<>>
    /\ failure = "none"
    /\ query = EmptyQuery

(* lines 368-369: tables = [...]; summarize_chain.batch(tables, ...) starts *)
SummarizeTables ==
    /\ pc = "summarize_tables"
    /\ batch_phase = "idle"
    /\ tables' = TextsOf(table_elements)
    /\ calls' = SubmitAll(tables')
    /\ batch_phase' = "running"
    /\ UNCHANGED <<classifyVars, texts, llm, table_summaries, text_summaries,
                   indexVars, failure, query, pc>>

(* lines 380-381 *)
SummarizeTexts ==
    /\ pc = "summarize_texts"
    /\ batch_phase = "idle"
    /\ texts' = TextsOf(text_elements)
    /\ calls' = SubmitAll(texts')
    /\ batch_phase' = "running"
    /\ UNCHANGED <<classifyVars, tables, llm, table_summaries, text_summaries,
                   indexVars, failure, query, pc>>

(* a free worker takes the oldest queued input and calls the model *)
MayStart(cs) == Cardinality(Running(cs)) < max_concurrency

StartCall ==
    /\ batch_phase = "running"
    /\ Queued(calls) # {}
    /\ MayStart(calls)
    /\ LET i == CHOOSE x \in Queued(calls) : \A y \in Queued(calls) : x <= y
       IN  calls' = [calls EXCEPT ![i] = "running"]
    /\ UNCHANGED <<classifyVars, tables, texts, llm, batch_phase,
                   table_summaries, text_summaries, indexVars, failure,
                   query, pc>>

(* the model call of input i returns a summary *)
CallReturns ==
    /\ batch_phase \in {"running", "raising"}
    /\ \E i \in Running(calls) : calls' = [calls EXCEPT ![i] = "done"]
    /\ UNCHANGED <<classifyVars, tables, texts, llm, batch_phase,
                   table_summaries, text_summaries, indexVars, failure,
                   query, pc>>

(* the model call of input i raises *)
CallRaises ==
    /\ batch_phase \in {"running", "raising"}
    /\ \E i \in Running(calls) : calls' = [calls EXCEPT ![i] = "failed"]
    /\ UNCHANGED <<classifyVars, tables, texts, llm, batch_phase,
                   table_summaries, text_summaries, indexVars, failure,
                   query, pc>>

(* line 369: batch returns one summary per input, in input order *)
BatchOutput(xs) == [i \in 1..Len(xs) |-> summarize_chain(xs[i])]

TablesBatchReturns ==
    /\ pc = "summarize_tables"
    /\ batch_phase = "running"
    /\ AllDone(calls)
    /\ table_summaries' = BatchOutput(tables)
    /\ batch_phase' = "idle"
    /\ pc' = "summarize_texts"
    /\ UNCHANGED <<classifyVars, tables, texts, llm, calls, text_summaries,
                   indexVars, failure, query>>

(* line 381 *)
TextsBatchReturns ==
    /\ pc = "summarize_texts"
    /\ batch_phase = "running"
    /\ AllDone(calls)
    /\ text_summaries' = BatchOutput(texts)
    /\ batch_phase' = "idle"
    /\ pc' = "construct"
    /\ UNCHANGED <<classifyVars, tables, texts, llm, calls, table_summaries,
                   indexVars, failure, query>>

(* batch meets an exception: the calls still queued are cancelled *)
CancelQueued(cs) ==
    [i \in DOMAIN cs |-> IF cs[i] = "queued" THEN "cancelled" ELSE cs[i]]

BatchRaises ==
    /\ batch_phase = "running"
    /\ FirstFailure(calls)
    /\ calls' = CancelQueued(calls)
    /\ batch_phase' = "raising"
    /\ UNCHANGED <<classifyVars, tables, texts, llm, table_summaries,
                   text_summaries, indexVars, failure, query, pc>>

(* the pool has drained; the exception leaves the cell and the run stops *)
BatchPropagates ==
    /\ batch_phase = "raising"
    /\ Running(calls) = {}
    /\ batch_phase' = "idle"
    /\ failure' = "summarization"
    /\ pc' = "failed"
    /\ UNCHANGED <<classifyVars, tables, texts, llm, calls, table_summaries,
                   text_summaries, indexVars, query>>

NextPool ==
    \/ SummarizeTables
    \/ StartCall
    \/ CallReturns
    \/ CallRaises
    \/ TablesBatchReturns
    \/ BatchRaises
    \/ BatchPropagates

SpecPool == InitPool /\ [][NextPool]_vars

-----------------------------------------------------------------------------
(* Indexing, lines 413-457.                                                *)

(* OpenAIEmbeddings(): a fixed function of the text; different texts may   *)
(* have the same vector.  One coordinate is enough for the ranking.        *)
Embed(text) ==
    CASE text = "s0" -> 0
      [] text = "s1" -> 1
      [] text = "q0" -> 0
      [] text = "q2" -> 2

(* [str(uuid.uuid4()) for _ in xs]: fresh ids *)
Uuids(xs) == [i \in 1..Len(xs) |-> uuid_count + i]

(* summaries paired with the ids in reverse position *)
SummaryDocsMispaired(summaries, ids) ==
    [i \in 1..Len(summaries) |->
        [page_content |-> summaries[i], doc_id |-> ids[Len(summaries) + 1 - i]]]

(* [Document(page_content=s, metadata={id_key: ids[i]})                    *)
(*  for i, s in enumerate(summaries)]                                      *)
SummaryDocs(summaries, ids) ==
    [i \in 1..Len(summaries) |->
        [page_content |-> summaries[i], doc_id |-> ids[i]]]

(* vectorstore.add_documents(docs): embeds every page_content and appends  *)
(* the entries to the collection                                           *)
add_documents(vs, docs) ==
    vs \o [i \in 1..Len(docs) |->
              [doc_id |-> docs[i].doc_id, embedding |-> Embed(docs[i].page_content)]]

(* list(zip(ids, xs)) *)
Zip(ids, xs) ==
    [i \in 1..Min(Len(ids), Len(xs)) |-> [key |-> ids[i], value |-> xs[i]]]

(* docstore.mset(pairs): self.store[key] = value for every pair *)
RECURSIVE mset(_, _)
mset(st, pairs) ==
    IF pairs = <<>> THEN st
    ELSE mset({e \in st : e.key # Head(pairs).key} \cup {Head(pairs)},
              Tail(pairs))

VectorIds  == {vectorstore[i].doc_id : i \in DOMAIN vectorstore}
ContentIds == {e.key : e \in store}

(* lines 422-433: the empty stores and the retriever over them *)
Construct ==
    /\ pc = "construct"
    /\ vectorstore' = <<>>
    /\ store' = {}
    /\ retriever' = TRUE
    /\ pc' = "add_texts"
    /\ UNCHANGED <<classifyVars, summaryVars, uuid_count, doc_ids, table_ids,
                   failure, query>>

(* lines 436-441 and 444-445 *)
AddTexts ==
    /\ pc = "add_texts"
    /\ IF texts # <<>> /\ text_summaries # <<>>
       THEN /\ doc_ids' = Uuids(texts)
            /\ uuid_count' = uuid_count + Len(texts)
            /\ pc' = "texts_add_documents"
       ELSE /\ pc' = "add_tables"
            /\ UNCHANGED <<doc_ids, uuid_count>>
    /\ UNCHANGED <<classifyVars, summaryVars, retriever, vectorstore, store,
                   table_ids, failure, query>>

(* the two writes of lines 442-443 in the other order *)
TextsMsetFirst ==
    /\ pc = "texts_add_documents"
    /\ store' = mset(store, Zip(doc_ids, texts))
    /\ pc' = "texts_mset"
    /\ UNCHANGED <<classifyVars, summaryVars, retriever, vectorstore,
                   uuid_count, doc_ids, table_ids, failure, query>>

(* line 442 *)
TextsAddDocuments ==
    /\ pc = "texts_add_documents"
    /\ vectorstore' = add_documents(vectorstore, SummaryDocs(text_summaries, doc_ids))
    /\ pc' = "texts_mset"
    /\ UNCHANGED <<classifyVars, summaryVars, retriever, store, uuid_count,
                   doc_ids, table_ids, failure, query>>

(* line 442 raises: the embedding call or the collection write failed and  *)
(* nothing was added                                                       *)
TextsAddDocumentsFails ==
    /\ pc = "texts_add_documents"
    /\ \E f \in {"embedding", "vector_write"} : failure' = f
    /\ pc' = "failed"
    /\ UNCHANGED <<classifyVars, summaryVars, indexVars, query>>

(* line 443 *)
TextsMset ==
    /\ pc = "texts_mset"
    /\ store' = mset(store, Zip(doc_ids, texts))
    /\ pc' = "add_tables"
    /\ UNCHANGED <<classifyVars, summaryVars, retriever, vectorstore,
                   uuid_count, doc_ids, table_ids, failure, query>>

(* line 443 raises after n of the pairs were written *)
TextsMsetFails ==
    /\ pc = "texts_mset"
    /\ \E n \in 0..(Len(texts) - 1) :
           store' = mset(store, SubSeq(Zip(doc_ids, texts), 1, n))
    /\ failure' = "content_write"
    /\ pc' = "failed"
    /\ UNCHANGED <<classifyVars, summaryVars, retriever, vectorstore,
                   uuid_count, doc_ids, table_ids, query>>

(* lines 448-453 and 456-457 *)
AddTables ==
    /\ pc = "add_tables"
    /\ IF tables # <<>> /\ table_summaries # <<>>
       THEN /\ table_ids' = Uuids(tables)
            /\ uuid_count' = uuid_count + Len(tables)
            /\ pc' = "tables_add_documents"
       ELSE /\ pc' = "ready"
            /\ UNCHANGED <<table_ids, uuid_count>>
    /\ UNCHANGED <<classifyVars, summaryVars, retriever, vectorstore, store,
                   doc_ids, failure, query>>

(* line 454 *)
TablesAddDocuments ==
    /\ pc = "tables_add_documents"
    /\ vectorstore' = add_documents(vectorstore, SummaryDocs(table_summaries, table_ids))
    /\ pc' = "tables_mset"
    /\ UNCHANGED <<classifyVars, summaryVars, retriever, store, uuid_count,
                   doc_ids, table_ids, failure, query>>

TablesAddDocumentsFails ==
    /\ pc = "tables_add_documents"
    /\ \E f \in {"embedding", "vector_write"} : failure' = f
    /\ pc' = "failed"
    /\ UNCHANGED <<classifyVars, summaryVars, indexVars, query>>

(* line 455 *)
TablesMset ==
    /\ pc = "tables_mset"
    /\ store' = mset(store, Zip(table_ids, tables))
    /\ pc' = "ready"
    /\ UNCHANGED <<classifyVars, summaryVars, retriever, vectorstore,
                   uuid_count, doc_ids, table_ids, failure, query>>

TablesMsetFails ==
    /\ pc = "tables_mset"
    /\ \E n \in 0..(Len(tables) - 1) :
           store' = mset(store, SubSeq(Zip(table_ids, tables), 1, n))
    /\ failure' = "content_write"
    /\ pc' = "failed"
    /\ UNCHANGED <<classifyVars, summaryVars, retriever, vectorstore,
                   uuid_count, doc_ids, table_ids, query>>

-----------------------------------------------------------------------------
(* Query path, lines 470-485 and the chain.invoke cells:                   *)
(* {"context": retriever, "question": passthrough} | prompt | model | parser *)

None == "None"

Dist(a, b) == (a - b) * (a - b)

Range(f) == {f[i] : i \in DOMAIN f}

(* vectorstore.similarity_search: the k entries nearest to the query       *)
(* vector, nearest first; the collection does not say how equal distances  *)
(* are ordered.  Each ranking is a sequence of positions of vs.            *)
Rankings(vs, qe, k) ==
    LET n == Len(vs)
        m == Min(k, n)
        d(x) == Dist(vs[x].embedding, qe)
    IN  {r \in [1..m -> 1..n] :
            /\ \A i, j \in 1..m : i < j => r[i] # r[j] /\ d(r[i]) <= d(r[j])
            /\ \A x \in (1..n) \ Range(r) : \A i \in 1..m : d(r[i]) <= d(x)}

(* MultiVectorRetriever: the ids of the hits, first occurrence kept *)
RECURSIVE UniqueIds(_, _)
UniqueIds(ids, seen) ==
    IF ids = <<>> THEN <<>>
    ELSE IF Head(ids) \in seen
         THEN UniqueIds(Tail(ids), seen)
         ELSE <<Head(ids)>> \o UniqueIds(Tail(ids), seen \cup {Head(ids)})

(* docstore.mget(ids): the value of each key, None for a missing key *)
mget(st, ids) ==
    [i \in 1..Len(ids) |->
        IF \E e \in st : e.key = ids[i]
        THEN (CHOOSE e \in st : e.key = ids[i]).value
        ELSE None]

(* a filter that stops at the first missing document *)
RECURSIVE NotNoneUntilMissing(_)
NotNoneUntilMissing(docs) ==
    IF docs = <<>> THEN <<>>
    ELSE IF Head(docs) # None
         THEN <<Head(docs)>> \o NotNoneUntilMissing(Tail(docs))
         ELSE <<>>

(* [d for d in docs if d is not None] *)
RECURSIVE NotNone(_)
NotNone(docs) ==
    IF docs = <<>> THEN <<>>
    ELSE IF Head(docs) # None
         THEN <<Head(docs)>> \o NotNone(Tail(docs))
         ELSE NotNone(Tail(docs))

(* a collection that raises when it holds no entry to return *)
RetrieveNotEnoughElements(q, vs, st, fault, r) ==
    IF fault
    THEN [q EXCEPT !.stage = "Failed", !.fault = "retrieval", !.raised = "retrieval"]
    ELSE IF vs = <<>>
    THEN [q EXCEPT !.stage = "Failed", !.raised = "retrieval"]
    ELSE LET hits == [i \in 1..Len(r) |-> vs[r[i]].doc_id]
         IN  [q EXCEPT !.stage = "Retrieved",
                       !.hits = hits,
                       !.docs = NotNone(mget(st, UniqueIds(hits, {})))]

(* the retriever step on an embedded question; r is the ranking the        *)
(* collection returned, fault says that the collection query raised        *)
Retrieve(q, vs, st, fault, r) ==
    IF fault
    THEN [q EXCEPT !.stage = "Failed", !.fault = "retrieval", !.raised = "retrieval"]
    ELSE LET hits == [i \in 1..Len(r) |-> vs[r[i]].doc_id]
         IN  [q EXCEPT !.stage = "Retrieved",
                       !.hits = hits,
                       !.docs = NotNone(mget(st, UniqueIds(hits, {})))]

(* embedding of the question by the embedding function of the collection *)
EmbedQuestion(q, fault) ==
    IF fault
    THEN [q EXCEPT !.stage = "Failed", !.fault = "embedding", !.raised = "embedding"]
    ELSE [q EXCEPT !.stage = "Embedded", !.embedding = Embed(q.question)]

(* a composer that calls the model a second time after a failed call *)
GenerateWithRetry(q, fault) ==
    IF fault /\ q.model_calls = 0
    THEN [q EXCEPT !.model_calls = @ + 1]
    ELSE IF fault
    THEN [q EXCEPT !.stage = "Failed", !.fault = "generation", !.raised = "generation",
                   !.model_calls = @ + 1]
    ELSE [q EXCEPT !.stage = "Answered", !.answer = "text", !.model_calls = @ + 1]

(* prompt | model | StrOutputParser: one model call; its exception leaves  *)
(* chain.invoke and no text is returned                                    *)
Generate(q, fault) ==
    IF fault
    THEN [q EXCEPT !.stage = "Failed", !.fault = "generation", !.raised = "generation",
                   !.model_calls = @ + 1]
    ELSE [q EXCEPT !.stage = "Answered", !.answer = "text", !.model_calls = @ + 1]

KernelIdle == pc \in {"ready", "failed"}

(* chain.invoke(question) *)
Ask ==
    /\ retriever
    /\ KernelIdle
    /\ query.stage \in {"Idle", "Answered", "Failed"}
    /\ \E qn \in Questions :
           query' = [EmptyQuery EXCEPT !.stage = "Received", !.question = qn]
    /\ UNCHANGED <<classifyVars, summaryVars, indexVars, failure, pc>>

QueryEmbed ==
    /\ query.stage = "Received"
    /\ \E fault \in BOOLEAN : query' = EmbedQuestion(query, fault)
    /\ UNCHANGED <<classifyVars, summaryVars, indexVars, failure, pc>>

QueryRetrieve ==
    /\ query.stage = "Embedded"
    /\ \E fault \in BOOLEAN :
       \E r \in Rankings(vectorstore, query.embedding, DEFAULT_K) :
           query' = Retrieve(query, vectorstore, store, fault, r)
    /\ UNCHANGED <<classifyVars, summaryVars, indexVars, failure, pc>>

(* the retriever has returned its documents (its list of hits is gone);   *)
(* the prompt template is filled with them and the question                *)
QueryCompose ==
    /\ query.stage = "Retrieved"
    /\ query' = [query EXCEPT !.stage = "Composed", !.hits = <<>>]
    /\ UNCHANGED <<classifyVars, summaryVars, indexVars, failure, pc>>

QueryGenerate ==
    /\ query.stage = "Composed"
    /\ \E fault \in BOOLEAN : query' = Generate(query, fault)
    /\ UNCHANGED <<classifyVars, summaryVars, indexVars, failure, pc>>

Next ==
    \/ SummarizeTables
    \/ SummarizeTexts
    \/ StartCall
    \/ CallReturns
    \/ CallRaises
    \/ TablesBatchReturns
    \/ TextsBatchReturns
    \/ BatchRaises
    \/ BatchPropagates
    \/ Construct
    \/ AddTexts
    \/ TextsAddDocuments
    \/ TextsAddDocumentsFails
    \/ TextsMset
    \/ TextsMsetFails
    \/ AddTables
    \/ TablesAddDocuments
    \/ TablesAddDocumentsFails
    \/ TablesMset
    \/ TablesMsetFails
    \/ Ask
    \/ QueryEmbed
    \/ QueryRetrieve
    \/ QueryCompose
    \/ QueryGenerate

Spec == Init /\ [][Next]_vars

-----------------------------------------------------------------------------
(* Properties.                                                             *)

IngestionEnded == pc \in {"ready", "failed"}

(* the retriever step of the current query has returned *)
HasRetrieved ==
    \/ query.stage \in {"Retrieved", "Composed", "Answered"}
    \/ query.stage = "Failed" /\ query.raised = "generation"

(* the j-th smallest member of a set of positions *)
NthOf(S, j) == CHOOSE p \in S : Cardinality({x \in S : x < p}) = j - 1

(* the elements that were given an id, with their raw content and summary *)
IndexedTexts ==
    {[id |-> doc_ids[i], content |-> texts[i], summary |-> text_summaries[i]] :
        i \in DOMAIN doc_ids}
IndexedTables ==
    {[id |-> table_ids[i], content |-> tables[i], summary |-> table_summaries[i]] :
        i \in DOMAIN table_ids}
InBothStores(e) == e.id \in VectorIds /\ e.id \in ContentIds
ExactMatches ==
    {e \in IndexedTexts \cup IndexedTables :
        InBothStores(e) /\ Embed(e.summary) = query.embedding}

(* positions of the hits that have a Content Store record *)
Survivors == {p \in DOMAIN query.hits : query.hits[p] \in ContentIds}

(* C1: after every ingestion batch, completed or stopped by a failure, the *)
(* Content Store and the Vector Store hold the same set of ids.            *)
C1_BijectionAfterBatch ==
    IngestionEnded => VectorIds = ContentIds

(* C2: in every state a query reads, no id is in the Vector Store without  *)
(* its Content Store record and none is in the Content Store without its   *)
(* Vector Store entry.                                                     *)
C2_NoPartialWriteObserved ==
    HasRetrieved =>
        /\ \A i \in DOMAIN vectorstore : vectorstore[i].doc_id \in ContentIds
        /\ \A e \in store : e.key \in VectorIds

(* C3: when the summarization of one element fails for good, the batch is  *)
(* not aborted: ingestion reaches Ready, every other element of the batch  *)
(* is in both stores, and the failed element is in neither.                *)
C3_PartialFailureIsolation ==
    LET inputs == IF texts # <<>> THEN texts ELSE tables
        ids    == IF texts # <<>> THEN doc_ids ELSE table_ids
    IN  (IngestionEnded /\ failure \notin {"embedding", "vector_write", "content_write"}
           /\ \E i \in DOMAIN calls : calls[i] = "failed")
        => /\ pc = "ready"
           /\ \A i \in DOMAIN calls :
                 IF calls[i] = "failed"
                 THEN i \in DOMAIN ids => ids[i] \notin VectorIds \cup ContentIds
                 ELSE /\ i \in DOMAIN ids
                      /\ ids[i] \in VectorIds
                      /\ [key |-> ids[i], value |-> inputs[i]] \in store

(* C4: at most max_concurrency model calls are outstanding at any time, no *)
(* call beyond the limit is rejected, and when the batch is over every one *)
(* of the N calls has completed.                                           *)
C4_BoundedPoolCompletesAll ==
    /\ Cardinality(Running(calls)) <= max_concurrency
    /\ \A i \in DOMAIN calls : calls[i] # "cancelled"
    /\ (pc # "summarize_tables") =>
          \A i \in DOMAIN calls : calls[i] \in {"done", "failed"}

(* the part of C4 that the pool keeps: the bound on outstanding calls      *)
ConcurrencyBound == Cardinality(Running(calls)) <= max_concurrency

(* C5 as stated: every indexed element whose summary embedding equals the  *)
(* query embedding has its own raw content as the top-ranked result.       *)
C5_EveryExactMatchIsTop ==
    query.stage = "Retrieved" =>
        \A e \in ExactMatches :
            query.docs # <<>> /\ query.docs[1] = e.content

(* C5 amended: when some indexed element's summary embedding equals the    *)
(* query embedding, the top-ranked result is the raw content stored under  *)
(* the id of one such element, and the result is empty only when no hit    *)
(* has a Content Store record.                                             *)
C5_SomeExactMatchIsTop ==
    (query.stage = "Retrieved" /\ ExactMatches # {}) =>
        IF query.docs = <<>>
        THEN Survivors = {}
        ELSE \E e \in ExactMatches :
                /\ Survivors # {}
                /\ query.hits[NthOf(Survivors, 1)] = e.id
                /\ query.docs[1] = e.content

C5_Witness ==
    /\ query.stage = "Retrieved"
    /\ Cardinality(ExactMatches) >= 2
    /\ Len(query.hits) >= 3
    /\ \E e \in ExactMatches : query.docs[1] # e.content

(* C6: a query on an empty Vector Store does not fail because of it: the   *)
(* search returns the empty list and the retrieval result is empty.        *)
C6_EmptyIndexQuery ==
    (vectorstore = <<>> /\ query.stage \notin {"Idle", "Received", "Embedded"}
        /\ query.fault \in {"none", "generation"})
    => /\ query.raised # "retrieval"
       /\ HasRetrieved
       /\ query.hits = <<>>
       /\ query.docs = <<>>
       /\ query.answer = (IF query.stage = "Answered" THEN "text" ELSE "none")

C6_Witness ==
    /\ pc = "ready"
    /\ vectorstore = <<>>
    /\ store = {}
    /\ query.stage = "Answered"
    /\ query.docs = <<>>

(* C7: a query goes Received, Embedded, Retrieved, Composed and ends in    *)
(* Answered or in Failed; a fault of a stage ends it in Failed with the    *)
(* error of that stage and without answer text, and the model is called    *)
(* at most once per query.                                                 *)
QueryOrder ==
    {<<"Idle", "Received">>, <<"Received", "Embedded">>, <<"Received", "Failed">>,
     <<"Embedded", "Retrieved">>, <<"Embedded", "Failed">>,
     <<"Retrieved", "Composed">>, <<"Composed", "Answered">>,
     <<"Composed", "Failed">>, <<"Answered", "Received">>,
     <<"Failed", "Received">>}

QueryOutcome ==
    /\ (query.stage = "Failed") <=> (query.raised # "none")
    /\ query.raised = query.fault
    /\ query.raised # "none" => query.answer = "none"
    /\ (query.stage = "Answered") <=> (query.answer # "none")
    /\ query.model_calls <= 1
    /\ query.stage \in {"Answered", "Failed"} /\ query.raised \in {"none", "generation"}
           => query.model_calls = 1

C7_QueryLifecycle ==
    /\ []QueryOutcome
    /\ [][query.stage' # query.stage =>
             <<query.stage, query.stage'>> \in QueryOrder]_vars
    /\ [][(query.stage \in {"Answered", "Failed"} /\ query' # query) =>
             query'.stage = "Received"]_vars

C7_Witness ==
    /\ query.stage = "Failed"
    /\ query.raised = "generation"
    /\ query.model_calls = 1
    /\ query.docs # <<>>

(* C8: a hit whose id has no Content Store record is skipped, the          *)
(* retrieval does not fail, and the remaining hits keep their rank order.  *)
C8_SkipMissingKeepOrder ==
    /\ (query.stage = "Failed" /\ query.raised = "retrieval") => query.fault = "retrieval"
    /\ query.stage = "Retrieved" =>
          /\ Len(query.docs) = Cardinality(Survivors)
          /\ \A j \in DOMAIN query.docs :
                [key |-> query.hits[NthOf(Survivors, j)], value |-> query.docs[j]] \in store

C8_Witness ==
    /\ query.stage = "Retrieved"
    /\ Len(query.docs) >= 2
    /\ query.docs[1] # query.docs[2]
    /\ \E p, p2 \in DOMAIN query.hits :
          p < p2 /\ query.hits[p] \notin ContentIds /\ query.hits[p2] \in ContentIds

(* C9: the classifier keeps exactly the table fragments, as type "table",  *)
(* and the composite-text fragments, as type "text", in input order with   *)
(* their text; it drops every other fragment and touches no store.         *)
Category(cls) ==
    CASE cls \in {Table, TableChunk} -> "table"
      [] cls = CompositeElement -> "text"
      [] OTHER -> "dropped"

Kept(type) ==
    {i \in DOMAIN raw_pdf_elements : Category(raw_pdf_elements[i].cls) = type}

IsSelection(out, S) ==
    /\ Len(out) = Cardinality(S)
    /\ \A j \in DOMAIN out :
          /\ out[j].type = Category(raw_pdf_elements[NthOf(S, j)].cls)
          /\ out[j].text = raw_pdf_elements[NthOf(S, j)].text

C9_ClassifierKeepsTablesAndTexts ==
    /\ vectorstore = <<>> /\ store = {}
    /\ pc = "classified" =>
          /\ IsSelection(categorized_elements, Kept("table") \cup Kept("text"))
          /\ IsSelection(table_elements, Kept("table"))
          /\ IsSelection(text_elements, Kept("text"))

C9_Witness ==
    /\ pc = "classified"
    /\ Len(raw_pdf_elements) = 3
    /\ Len(table_elements) = 1
    /\ Len(text_elements) = 1
    /\ raw_pdf_elements[1].cls = Title
    /\ raw_pdf_elements[2].cls = CompositeElement
    /\ raw_pdf_elements[3].cls = TableChunk

(* C10: the Vector Store is written before the Content Store, so the ids   *)
(* of the Content Store are always among those of the Vector Store; a      *)
(* group with an empty element or summary list changes neither store.      *)
C10_VectorBeforeContent ==
    /\ [](ContentIds \subseteq VectorIds)
    /\ [][(pc = "add_texts" /\ (texts = <<>> \/ text_summaries = <<>>)) =>
             (pc' = "add_tables" /\ vectorstore' = vectorstore /\ store' = store)]_vars
    /\ [][(pc = "add_tables" /\ (tables = <<>> \/ table_summaries = <<>>)) =>
             (pc' = "ready" /\ vectorstore' = vectorstore /\ store' = store)]_vars

C10_Witness ==
    /\ pc = "failed"
    /\ failure = "content_write"
    /\ texts = <<>>
    /\ ContentIds # {}
    /\ ContentIds # VectorIds

====
